---- MODULE Spec2Model ----
(***************************************************************************)
(* A model of sncosmo/plotting.py: normalized_flux, plotlc,                *)
(* val_and_err_to_str and plotpdfs.                                        *)
(*                                                                         *)
(* Numbers.  Fluxes, flux ratios and y-limits are exact rationals <<n, d>> *)
(* (d > 0, lowest terms); the floating-point rounding of the source is not *)
(* modelled.  Zeropoints are whole magnitudes whose differences are        *)
(* multiples of 5, so that 10.**(0.4 * dzp) is a power of 100.  The values *)
(* handed to the formatter are decimals in units of 10^-4 together with    *)
(* the side on which the nearest double lies, which decides a rounding tie.*)
(***************************************************************************)
EXTENDS Integers, Sequences, FiniteSets, TLC

VARIABLES
    pc,        \* position of the running call: "idle", "called", "bands", "pars", "finish", "returned", "failed"
    op,        \* the function being run: "none", "normalized_flux", "plotlc", "val_and_err_to_str", "plotpdfs"
    args,      \* arguments of the running call
    locals,    \* local variables of the running call
    result,    \* return value of the last finished call ("none" for the plotting functions)
    error,     \* exception that ended the call, "none" if none
    ncalls,    \* number of plotting calls started so far; the running call's number
    gcf,       \* pyplot's process-wide current figure: the set of panels it holds
    drawn,     \* what the running call has drawn: one record per panel, in drawing order
    out,       \* the file written or window shown by the running call, "none" if none
    zeroIsLast \* installed matplotlib: TRUE if subplot index 0 aliases the last cell (< 1.5)

vars == <<pc, op, args, locals, result, error, ncalls, gcf, drawn, out, zeroIsLast>>

(***************************************************************************)
(* Bounds of the model.                                                    *)
(***************************************************************************)
MaxNormRows == 2      \* rows of a batch handed to normalized_flux directly
MaxCalls == 2         \* plotting calls in one run of the process
MaxPar == 3           \* parameters handed to plotpdfs
MaxCol == 2           \* histogram columns handed to plotpdfs

(***************************************************************************)
(* Exact rational arithmetic.                                              *)
(***************************************************************************)
Abs(x) == IF x < 0 THEN -x ELSE x

RECURSIVE GCD(_, _)
GCD(a, b) == IF b = 0 THEN a ELSE GCD(b, a % b)

Rat(n, d) ==
    LET s == IF d < 0 THEN -1 ELSE 1
        g == GCD(Abs(n), Abs(d))
    IN  <<(s * n) \div g, (s * d) \div g>>

RInt(n) == <<n, 1>>
RMul(a, b) == Rat(a[1] * b[1], a[2] * b[2])
RDiv(a, b) == Rat(a[1] * b[2], a[2] * b[1])
RAdd(a, b) == Rat(a[1] * b[2] + b[1] * a[2], a[2] * b[2])
RSub(a, b) == Rat(a[1] * b[2] - b[1] * a[2], a[2] * b[2])
RLeq(a, b) == a[1] * b[2] <= b[1] * a[2]
RMax2(a, b) == IF RLeq(a, b) THEN b ELSE a
RMin2(a, b) == IF RLeq(a, b) THEN a ELSE b

\* largest and smallest element of a non-empty sequence of rationals
RMaxSeq(s) == CHOOSE x \in {s[i] : i \in DOMAIN s} : \A j \in DOMAIN s : RLeq(s[j], x)
RMinSeq(s) == CHOOSE x \in {s[i] : i \in DOMAIN s} : \A j \in DOMAIN s : RLeq(x, s[j])

RECURSIVE IntPow(_, _)
IntPow(b, k) == IF k = 0 THEN 1 ELSE b * IntPow(b, k - 1)

\* 10.**(0.4 * dzp) for a zeropoint difference that is a multiple of 5
Pow10(dzp) ==
    LET k == (4 * dzp) \div 10
    IN  IF k >= 0 THEN <<IntPow(10, k), 1>> ELSE <<1, IntPow(10, -k)>>

(***************************************************************************)
(* The lookup collaborators (sncosmo.spectral): magnitude systems and      *)
(* bandpasses, by label.  An unknown label makes the lookup raise.         *)
(***************************************************************************)
MagSystems == {"ab", "vega"}
KnownBands == {"sdssg", "sdssr", "sdssi", "sdssz", "desr"}

\* get_magsystem(name) succeeds
get_magsystem_ok(name) == name \in MagSystems

\* get_magsystem(ms).zpbandflux(band) succeeds
zpbandflux_ok(band) == band \in KnownBands

\* get_magsystem(ms).zpbandflux(band): reference flux of a system in a band
zpbandflux(ms, band) ==
    IF ms = "ab"
    THEN CASE band = "sdssg" -> 4 [] band = "sdssr" -> 3 [] band = "sdssi" -> 2
           [] band = "sdssz" -> 2 [] band = "desr" -> 3
    ELSE CASE band = "sdssg" -> 5 [] band = "sdssr" -> 2 [] band = "sdssi" -> 1
           [] band = "sdssz" -> 1 [] band = "desr" -> 2

\* get_bandpass(name).disp_eff: effective wavelength; "sdssr" and "desr" tie
disp_eff(band) ==
    CASE band = "sdssg" -> 4700 [] band = "sdssr" -> 6200 [] band = "desr" -> 6200
      [] band = "sdssi" -> 7500 [] band = "sdssz" -> 8900

(***************************************************************************)
(* normalized_flux                                                         *)
(***************************************************************************)
DefaultZp == 25
DefaultMagsys == "ab"

\* the scale factor of row i, lines 24-26 (factor_swapped: the ratio inverted)
factor_swapped(data, i, zp, magsys) ==
    RMul(RDiv(RInt(zpbandflux(magsys, data.band[i])),
              RInt(zpbandflux(data.zpsys[i], data.band[i]))),
         Pow10(zp - data.zp[i]))

factor(data, i, zp, magsys) ==
    RMul(RDiv(RInt(zpbandflux(data.zpsys[i], data.band[i])),
              RInt(zpbandflux(magsys, data.band[i]))),
         Pow10(zp - data.zp[i]))

\* the loop of lines 22-28, from row i on, with the arrays filled so far
\* (normalized_flux_loop_first: every row scaled by the factor of the first)
RECURSIVE normalized_flux_loop_first(_, _, _, _, _, _)
normalized_flux_loop_first(data, zp, magsys, i, flux, fluxerr) ==
    IF i > Len(data.flux)
    THEN [ok |-> TRUE, flux |-> flux, fluxerr |-> fluxerr]
    ELSE IF ~get_magsystem_ok(data.zpsys[i]) \/ ~zpbandflux_ok(data.band[i])
    THEN [ok |-> FALSE, error |-> "LookupError", at |-> i]
    ELSE normalized_flux_loop_first(data, zp, magsys, i + 1,
             Append(flux, RMul(RInt(data.flux[i]), factor(data, 1, zp, magsys))),
             Append(fluxerr, RMul(RInt(data.fluxerr[i]), factor(data, 1, zp, magsys))))

RECURSIVE normalized_flux_loop(_, _, _, _, _, _)
normalized_flux_loop(data, zp, magsys, i, flux, fluxerr) ==
    IF i > Len(data.flux)
    THEN [ok |-> TRUE, flux |-> flux, fluxerr |-> fluxerr]
    ELSE IF ~get_magsystem_ok(data.zpsys[i]) \/ ~zpbandflux_ok(data.band[i])
    THEN [ok |-> FALSE, error |-> "LookupError", at |-> i]
    ELSE normalized_flux_loop(data, zp, magsys, i + 1,
             Append(flux, RMul(RInt(data.flux[i]), factor(data, i, zp, magsys))),
             Append(fluxerr, RMul(RInt(data.fluxerr[i]), factor(data, i, zp, magsys))))

normalized_flux(data, zp, magsys) ==
    IF ~get_magsystem_ok(magsys)
    THEN [ok |-> FALSE, error |-> "LookupError", at |-> 0]
    ELSE normalized_flux_loop(data, zp, magsys, 1, <<>>, <<>>)

(***************************************************************************)
(* Observation batches: a dict of equal-length columns.                    *)
(***************************************************************************)
Column(rows, f) == [i \in 1..Len(rows) |-> rows[i][f]]

Batch(rows) ==
    [time |-> Column(rows, "time"), band |-> Column(rows, "band"),
     flux |-> Column(rows, "flux"), fluxerr |-> Column(rows, "fluxerr"),
     zp |-> Column(rows, "zp"), zpsys |-> Column(rows, "zpsys")]

\* the rows normalized_flux is exercised on
NormRows ==
    [time : {1}, band : {"sdssg", "sdssr", "bogus"}, flux : {-1, 3}, fluxerr : {2},
     zp : {20, 25}, zpsys : {"ab", "vega", "bogus"}]

SeqsUpTo(S, n) == UNION {[1..k -> S] : k \in 0..n}

NormBatches == {Batch(rows) : rows \in SeqsUpTo(NormRows, MaxNormRows)}

NoLocals == [none |-> TRUE]

InitNorm ==
    /\ pc = "called"
    /\ op = "normalized_flux"
    /\ args \in [data : NormBatches, zp : {25, 30}, magsys : {"ab", "vega", "bogus"}]
    /\ locals = NoLocals
    /\ result = "none"
    /\ error = "none"
    /\ ncalls = 0
    /\ gcf = {}
    /\ drawn = <<>>
    /\ out = "none"
    /\ zeroIsLast = FALSE

\* normalized_flux returns its two arrays
NormalizedFluxReturn ==
    /\ pc = "called" /\ op = "normalized_flux"
    /\ LET r == normalized_flux(args.data, args.zp, args.magsys)
       IN  /\ r.ok
           /\ result' = <<r.flux, r.fluxerr>>
           /\ pc' = "returned"
    /\ UNCHANGED <<op, args, locals, error, ncalls, gcf, drawn, out, zeroIsLast>>

\* normalized_flux raises from a lookup
NormalizedFluxRaise ==
    /\ pc = "called" /\ op = "normalized_flux"
    /\ LET r == normalized_flux(args.data, args.zp, args.magsys)
       IN  /\ ~r.ok
           /\ error' = r.error
           /\ pc' = "failed"
    /\ UNCHANGED <<op, args, locals, result, ncalls, gcf, drawn, out, zeroIsLast>>

NextNorm == NormalizedFluxReturn \/ NormalizedFluxRaise

SpecNorm == InitNorm /\ [][NextNorm]_vars

(***************************************************************************)
(* val_and_err_to_str                                                      *)
(*                                                                         *)
(* A float argument is [m, side]: the decimal m * 10^-4 it was written as, *)
(* and side = the sign of (nearest double - that decimal), which is what   *)
(* '{:.pf}' sees when the decimal lies exactly between two candidates.     *)
(***************************************************************************)
Dec(m, side) == [m |-> m, side |-> side]

\* number of decimal digits of n >= 1
RECURSIVE NumDigits(_)
NumDigits(n) == IF n < 10 THEN 1 ELSE 1 + NumDigits(n \div 10)

\* int(math.floor(math.log10(e))) for e = m * 10^-4 > 0
floor_log10(e) == NumDigits(e.m) - 5

DigitChar(d) ==
    CASE d = 0 -> "0" [] d = 1 -> "1" [] d = 2 -> "2" [] d = 3 -> "3" [] d = 4 -> "4"
      [] d = 5 -> "5" [] d = 6 -> "6" [] d = 7 -> "7" [] d = 8 -> "8" [] d = 9 -> "9"

\* the decimal digits of n >= 0, most significant first
RECURSIVE Digits(_)
Digits(n) == IF n < 10 THEN <<DigitChar(n)>> ELSE Append(Digits(n \div 10), DigitChar(n % 10))

\* the last k decimal digits of n, zero padded
RECURSIVE LastDigits(_, _)
LastDigits(n, k) ==
    IF k = 0 THEN <<>> ELSE Append(LastDigits(n \div 10, k - 1), DigitChar(n % 10))

\* |x| in units of 10^-p, correctly rounded from the double behind x
Rounded(x, p) ==
    LET a == Abs(x.m)
        s == IF x.m < 0 THEN -x.side ELSE x.side
    IN  IF p >= 4 THEN a * IntPow(10, p - 4)
        ELSE LET q == IntPow(10, 4 - p)
                 lo == a \div q
                 r == a % q
             IN  IF 2 * r > q THEN lo + 1
                 ELSE IF 2 * r < q THEN lo
                 ELSE IF s > 0 THEN lo + 1
                 ELSE IF s < 0 THEN lo
                 ELSE IF lo % 2 = 0 THEN lo ELSE lo + 1

\* '{:.pf}'.format(x), as a sequence of characters
FormatFixed(x, p) ==
    LET n == Rounded(x, p)
        sign == IF x.m < 0 THEN <<"-">> ELSE <<>>
        whole == Digits(n \div IntPow(10, p))
    IN  IF p = 0 THEN sign \o whole
        ELSE sign \o whole \o <<".">> \o LastDigits(n, p)

\* the precision of line 165 (precision_lead: without the + 1)
precision_lead(e) == IF -floor_log10(e) > 0 THEN -floor_log10(e) ELSE 0

precision(e) == IF -floor_log10(e) + 1 > 0 THEN -floor_log10(e) + 1 ELSE 0

PlusMinus == <<" ", "+", "/", "-", " ">>

\* lines 164-166; math.log10 raises ValueError for e <= 0
val_and_err_to_str(v, e) ==
    IF e.m <= 0
    THEN [ok |-> FALSE, error |-> "ValueError"]
    ELSE [ok |-> TRUE, p |-> precision(e),
          str |-> FormatFixed(v, precision(e)) \o PlusMinus \o FormatFixed(e, precision(e))]

\* a sequence of characters as one string
RECURSIVE Text(_)
Text(cs) == IF cs = <<>> THEN "" ELSE Head(cs) \o Text(Tail(cs))

\* the (value, uncertainty) pairs the formatter is exercised on
FmtValues ==
    {Dec(12345, -1), Dec(1234000, 1), Dec(1250, 0), Dec(25000, 0), Dec(-5000, 0),
     Dec(3500, -1), Dec(125000, 0), Dec(0, 0)}

FmtErrors ==
    {Dec(120, 1), Dec(50000, 0), Dec(5000, 0), Dec(996, -1), Dec(1000, 1),
     Dec(10000, 0), Dec(100000, 0), Dec(125000, 0), Dec(1000000, 0), Dec(1, 1),
     Dec(2500, 0), Dec(0, 0), Dec(-10000, 0)}

InitFmt ==
    /\ pc = "called"
    /\ op = "val_and_err_to_str"
    /\ args \in [v : FmtValues, e : FmtErrors]
    /\ locals = NoLocals
    /\ result = "none"
    /\ error = "none"
    /\ ncalls = 0
    /\ gcf = {}
    /\ drawn = <<>>
    /\ out = "none"
    /\ zeroIsLast = FALSE

\* val_and_err_to_str returns the formatted string
ValAndErrToStrReturn ==
    /\ pc = "called" /\ op = "val_and_err_to_str"
    /\ LET r == val_and_err_to_str(args.v, args.e)
       IN  /\ r.ok
           /\ result' = r.str
           /\ locals' = [p |-> r.p]
           /\ pc' = "returned"
    /\ UNCHANGED <<op, args, error, ncalls, gcf, drawn, out, zeroIsLast>>

\* math.log10 raises on a non-positive uncertainty
ValAndErrToStrRaise ==
    /\ pc = "called" /\ op = "val_and_err_to_str"
    /\ LET r == val_and_err_to_str(args.v, args.e)
       IN  /\ ~r.ok
           /\ error' = r.error
           /\ pc' = "failed"
    /\ UNCHANGED <<op, args, locals, result, ncalls, gcf, drawn, out, zeroIsLast>>

NextFmt == ValAndErrToStrReturn \/ ValAndErrToStrRaise

SpecFmt == InitFmt /\ [][NextFmt]_vars

(***************************************************************************)
(* The model object handed to plotlc (sncosmo.Model).                      *)
(***************************************************************************)
NoModel == [none |-> TRUE]

\* a model: reference time, the bands its wavelength range covers, its own
\* time grid, and its flux and flux error at each time
TheModel ==
    [none |-> FALSE, t0 |-> 2, overlap |-> {"sdssg", "sdssr", "desr", "sdssi"},
     times |-> <<1, 2, 3>>, flux |-> <<1, 4, 2>>, fluxerr |-> <<1, 1, 1>>]

\* model.bandoverlap(band)
bandoverlap(model, band) == band \in model.overlap

\* model.times()
model_times(model) == model.times

\* model.bandflux(band, time, zp=25., zpsys='ab') at the given times
bandflux_at(model, band, time) == [k \in 1..Len(time) |-> RInt(model.flux[time[k]])]

\* model.bandflux(band, zp=25., zpsys='ab', include_error=...) on the model's grid
bandflux(model, band) == bandflux_at(model, band, model.times)

bandfluxerr(model, band) == [k \in 1..Len(model.times) |-> RInt(model.fluxerr[model.times[k]])]

(***************************************************************************)
(* pyplot: the current figure and its subplot grid.                        *)
(***************************************************************************)
NoOut == [kind |-> "none"]

\* plt.figure(...): a new, empty figure becomes the current figure
\* (figure_reused: the current figure is kept)
figure_reused(g) == g

figure(g) == {}

\* plt.clf(): the current figure loses its panels
clf(g) == {}

\* plt.subplot(nrows, ncols, index): the cell an index names, or ValueError.
\* Index 0 is the last cell before matplotlib 1.5 and an error from 1.5 on.
subplot(nrows, ncols, index) ==
    IF index >= 1 /\ index <= nrows * ncols
    THEN [ok |-> TRUE, pos |-> index]
    ELSE IF index = 0 /\ zeroIsLast /\ nrows * ncols >= 1
    THEN [ok |-> TRUE, pos |-> nrows * ncols]
    ELSE [ok |-> FALSE, error |-> "ValueError"]

\* ax.get_ylim() before set_ylim: autoscaling spans everything drawn on the axes
get_ylim(lows, highs) == <<RMinSeq(lows), RMaxSeq(highs)>>

(***************************************************************************)
(* plotlc                                                                  *)
(***************************************************************************)
\* np.unique(data['band'])
unique(col) == {col[i] : i \in DOMAIN col}

\* sorted(zip(disps, bands, bandnames)): ascending effective wavelength; two
\* bands of equal wavelength are ordered by comparing the Bandpass objects,
\* which is an arbitrary order (sorted_bands_descending: the reverse order)
RECURSIVE sorted_bands_descending(_)
sorted_bands_descending(names) ==
    IF names = {} THEN {<<>>}
    ELSE UNION {{<<b>> \o rest : rest \in sorted_bands_descending(names \ {b})} :
                b \in {x \in names : \A y \in names : disp_eff(x) >= disp_eff(y)}}

RECURSIVE sorted_bands(_)
sorted_bands(names) ==
    IF names = {} THEN {<<>>}
    ELSE UNION {{<<b>> \o rest : rest \in sorted_bands(names \ {b})} :
                b \in {x \in names : \A y \in names : disp_eff(x) <= disp_eff(y)}}

\* the row numbers selected by the mask data['band'] == bandname, in row order
Mask(col, bandname) ==
    LET Hit(i) == col[i] = bandname
    IN  SelectSeq([i \in 1..Len(col) |-> i], Hit)

Take(col, idx) == [k \in 1..Len(idx) |-> col[idx[k]]]

Shift(time, t0) == [k \in 1..Len(time) |-> time[k] - t0]

RSubSeq(a, b) == [k \in 1..Len(a) |-> RSub(a[k], b[k])]
RAddSeq(a, b) == [k \in 1..Len(a) |-> RAdd(a[k], b[k])]
RDivSeq(a, b) == [k \in 1..Len(a) |-> RDiv(a[k], b[k])]

\* the errorbar call made when no model is given, line 110-112
errorbar_nomodel(model, band, time, flux, fluxerr) ==
    IF model.none THEN <<[x |-> time, y |-> flux, yerr |-> fluxerr]>> ELSE <<>>

\* model.bandflux at the data times, replacing modelflux when pulls are shown (line 139)
modelflux_after_pulls(model, band, time, show_pulls) ==
    IF show_pulls THEN bandflux_at(model, band, time) ELSE bandflux(model, band)

\* what the model branch, lines 114-154, puts on the panel
model_branch(model, band, time, flux, fluxerr, show_pulls, include_model_error) ==
    LET t0 == model.t0
        modelflux == bandflux(model, band)
        modelfluxerr == bandfluxerr(model, band)
        grid == Shift(model_times(model), t0)
        shade == IF include_model_error
                 THEN <<[x |-> grid, lo |-> RSubSeq(modelflux, modelfluxerr),
                         hi |-> RAddSeq(modelflux, modelfluxerr)]>>
                 ELSE <<>>
        pulls == IF show_pulls
                 THEN <<[x |-> Shift(time, t0),
                         y |-> RDivSeq(RSubSeq(flux, bandflux_at(model, band, time)), fluxerr)]>>
                 ELSE <<>>
        lows == RSubSeq(flux, fluxerr) \o modelflux
                  \o (IF include_model_error THEN shade[1].lo ELSE <<>>)
        highs == RAddSeq(flux, fluxerr) \o modelflux
                  \o (IF include_model_error THEN shade[1].hi ELSE <<>>)
        auto == get_ylim(lows, highs)
        maxmodelflux == RMaxSeq(modelflux_after_pulls(model, band, time, show_pulls))
        ymin == RMax2(auto[1], RMul(Rat(-2, 10), maxmodelflux))
        ymax == RMin2(auto[2], RMul(RInt(2), maxmodelflux))
    IN  [series |-> <<[x |-> Shift(time, t0), y |-> flux, yerr |-> fluxerr]>>,
         curve |-> <<[x |-> grid, y |-> modelflux]>>,
         shade |-> shade, pulls |-> pulls, auto |-> <<auto>>, ylim |-> <<<<ymin, ymax>>>>]

\* one pass of the loop body, lines 97-154, after plt.subplot gave cell pos
band_panel(data, dataflux, datafluxerr, model, show_pulls, include_model_error, bandname, axnum, pos) ==
    LET idx == Mask(data.band, bandname)
        time == Take(data.time, idx)
        flux == Take(dataflux, idx)
        fluxerr == Take(datafluxerr, idx)
        base == [pos |-> pos, band |-> bandname, text |-> bandname,
                 color |-> Rat(10000 - disp_eff(bandname), 10000 - 3000),
                 ylabel |-> (axnum % 2 = 1)]
        plain == [series |-> errorbar_nomodel(model, bandname, time, flux, fluxerr),
                  curve |-> <<>>, shade |-> <<>>, pulls |-> <<>>,
                  auto |-> <<>>, ylim |-> <<>>]
    IN  IF ~model.none /\ bandoverlap(model, bandname)
        THEN base @@ model_branch(model, bandname, time, flux, fluxerr,
                                  show_pulls, include_model_error)
        ELSE base @@ plain

\* The batches plotlc is exercised on.  The bands observed are any subset of
\* ObservedOrder, one row each in that order; the first row carries one of
\* the photometric calibrations of FirstRowPhot and the others are already
\* on the target calibration; all are taken at the first epoch, and with a
\* second epoch the first band is observed once more.
ObservedOrder == <<"sdssz", "sdssg", "bogus", "sdssr", "sdssi", "desr">>

FirstRowPhot == {[zp |-> 25, zpsys |-> "ab"], [zp |-> 30, zpsys |-> "vega"],
                 [zp |-> 25, zpsys |-> "bogus"]}

PlotRows(S, phot, epochs) ==
    LET In(b) == b \in S
        names == SelectSeq(ObservedOrder, In)
        first == [k \in 1..Len(names) |->
                    [time |-> epochs[1], band |-> names[k], flux |-> 3, fluxerr |-> 1,
                     zp |-> IF k = 1 THEN phot.zp ELSE 25,
                     zpsys |-> IF k = 1 THEN phot.zpsys ELSE "ab"]]
    IN  IF Len(epochs) > 1 /\ names # <<>>
        THEN Append(first, [time |-> epochs[2], band |-> names[1], flux |-> 5,
                            fluxerr |-> 2, zp |-> 25, zpsys |-> "ab"])
        ELSE first

PlotBatches ==
    {Batch(PlotRows(S, phot, epochs)) :
        S \in SUBSET {ObservedOrder[k] : k \in DOMAIN ObservedOrder},
        phot \in FirstRowPhot, epochs \in {<<1>>, <<2>>, <<1, 2>>}}

Startable == pc = "idle" /\ ncalls < MaxCalls

\* Neither function catches anything: an exception raised inside a call ends
\* the call there and reaches the caller (propagate_swallowed: the exception
\* is caught and the call goes on to write its output)
propagate_swallowed(err) == "finish"

propagate(err) == "failed"

\* axnum += 1, line 95 (next_axnum_wrapped: wrapping round the four cells)
next_axnum_wrapped(axnum) == (axnum % 4) + 1

next_axnum(axnum) == axnum + 1

\* plotlc up to the loop, lines 79-93
PlotlcCall(data, fname, model, show_pulls, include_model_error) ==
    /\ Startable
    /\ op' = "plotlc"
    /\ args' = [data |-> data, fname |-> fname, model |-> model,
                show_pulls |-> show_pulls, include_model_error |-> include_model_error]
    /\ ncalls' = ncalls + 1
    /\ gcf' = figure(gcf)
    /\ drawn' = <<>>
    /\ out' = NoOut
    /\ result' = "none"
    /\ LET nf == normalized_flux(data, DefaultZp, DefaultMagsys)
       IN  IF ~nf.ok
           THEN /\ pc' = propagate(nf.error)
                /\ error' = nf.error
                /\ locals' = NoLocals
           ELSE \E order \in sorted_bands(unique(data.band)) :
                /\ pc' = IF order = <<>> THEN "finish" ELSE "bands"
                /\ error' = "none"
                /\ locals' = [dataflux |-> nf.flux, datafluxerr |-> nf.fluxerr,
                              order |-> order, k |-> 0, axnum |-> 0]
    /\ UNCHANGED zeroIsLast

\* one pass of the loop over the sorted bands, lines 94-154
PlotlcBand ==
    /\ pc = "bands" /\ op = "plotlc"
    /\ LET axnum == next_axnum(locals.axnum)
           bandname == locals.order[locals.k + 1]
           ax == subplot(2, 2, axnum)
       IN  /\ locals' = [locals EXCEPT !.axnum = axnum, !.k = locals.k + 1]
           /\ IF ~ax.ok
              THEN /\ pc' = propagate(ax.error)
                   /\ error' = ax.error
                   /\ UNCHANGED <<gcf, drawn>>
              ELSE /\ gcf' = gcf \cup {[call |-> ncalls, pos |-> ax.pos]}
                   /\ drawn' = Append(drawn,
                          band_panel(args.data, locals.dataflux, locals.datafluxerr,
                                     args.model, args.show_pulls,
                                     args.include_model_error, bandname, axnum, ax.pos))
                   /\ pc' = IF locals.k + 1 = Len(locals.order) THEN "finish" ELSE "bands"
                   /\ UNCHANGED error
    /\ UNCHANGED <<op, args, result, ncalls, out, zeroIsLast>>

\* plt.show(): the window shows the current figure; the figure is destroyed
\* if the user closes the window before show returns, and kept otherwise
show(g, closed) == IF closed THEN {} ELSE g

\* the end of plotlc, lines 156-162
PlotlcFinish ==
    /\ pc = "finish" /\ op = "plotlc"
    /\ IF args.fname = "None"
       THEN \E closed \in BOOLEAN :
                /\ out' = [kind |-> "window", panels |-> gcf]
                /\ gcf' = show(gcf, closed)
       ELSE /\ out' = [kind |-> "file", name |-> args.fname, panels |-> gcf]
            /\ gcf' = clf(gcf)
    /\ pc' = "returned"
    /\ UNCHANGED <<op, args, locals, result, error, ncalls, drawn, zeroIsLast>>

(***************************************************************************)
(* plotpdfs                                                                *)
(***************************************************************************)
HistBins == 30
RangeSigmas == 5

\* the (name, average, uncertainty) triples plotpdfs is exercised on
PdfPars ==
    {[name |-> "x0", avg |-> Dec(12345, -1), err |-> Dec(120, 1)],
     [name |-> "x1", avg |-> Dec(1234000, 1), err |-> Dec(50000, 0)],
     [name |-> "c", avg |-> Dec(25000, 0), err |-> Dec(0, 0)]}

\* plot_range of line 191, in units of 10^-4
plot_range(avg, err) == <<avg.m - RangeSigmas * err.m, avg.m + RangeSigmas * err.m>>

\* nrow of line 186 (Python's // floors, as \div does)
nrow_of(npar, ncol) == (npar - 1) \div ncol + 1

\* plotpdfs up to the loop, lines 183-187
PlotpdfsCall(pars, fname, ncol) ==
    /\ Startable
    /\ op' = "plotpdfs"
    /\ args' = [parnames |-> Column(pars, "name"), averages |-> Column(pars, "avg"),
                errors |-> Column(pars, "err"), fname |-> fname, ncol |-> ncol]
    /\ ncalls' = ncalls + 1
    /\ gcf' = figure(gcf)
    /\ drawn' = <<>>
    /\ out' = NoOut
    /\ result' = "none"
    /\ error' = "none"
    /\ locals' = [npar |-> Len(pars), nrow |-> nrow_of(Len(pars), ncol), i |-> 0]
    /\ pc' = "pars"
    /\ UNCHANGED zeroIsLast

\* the subplot index handed to plt.subplot for parameter i, line 195
panel_index(i) == i

\* one pass of the loop over the parameters, lines 189-199
PlotpdfsPanel ==
    /\ pc = "pars" /\ op = "plotpdfs"
    /\ LET i == locals.i
           avg == args.averages[i + 1]
           err == args.errors[i + 1]
           str == val_and_err_to_str(avg, err)
           ax == subplot(locals.nrow, args.ncol, panel_index(i))
       IN  IF ~str.ok
           THEN /\ pc' = propagate(str.error)
                /\ error' = str.error
                /\ UNCHANGED <<locals, gcf, drawn>>
           ELSE IF ~ax.ok
           THEN /\ pc' = propagate(ax.error)
                /\ error' = ax.error
                /\ UNCHANGED <<locals, gcf, drawn>>
           ELSE /\ gcf' = gcf \cup {[call |-> ncalls, pos |-> ax.pos]}
                /\ drawn' = Append(drawn,
                       [pos |-> ax.pos, par |-> i, range |-> plot_range(avg, err),
                        bins |-> HistBins,
                        text |-> <<args.parnames[i + 1]>> \o <<" ", "=", " ">> \o str.str])
                /\ locals' = [locals EXCEPT !.i = i + 1]
                /\ pc' = IF i + 1 = locals.npar THEN "finish" ELSE "pars"
                /\ UNCHANGED error
    /\ UNCHANGED <<op, args, result, ncalls, out, zeroIsLast>>

\* the end of plotpdfs, lines 201-202
PlotpdfsFinish ==
    /\ pc = "finish" /\ op = "plotpdfs"
    /\ out' = [kind |-> "file", name |-> args.fname, panels |-> gcf]
    /\ gcf' = clf(gcf)
    /\ pc' = "returned"
    /\ UNCHANGED <<op, args, locals, result, error, ncalls, drawn, zeroIsLast>>

(***************************************************************************)
(* The process: a sequence of plotting calls, one at a time.               *)
(***************************************************************************)
NoArgs == [none |-> TRUE]

Init ==
    /\ pc = "idle"
    /\ op = "none"
    /\ args = NoArgs
    /\ locals = NoLocals
    /\ result = "none"
    /\ error = "none"
    /\ ncalls = 0
    /\ gcf = {}
    /\ drawn = <<>>
    /\ out = NoOut
    /\ zeroIsLast \in BOOLEAN

\* the caller gets control back, by return or by exception, and the frame of
\* the call is gone; the current figure stays as the call left it
Resume ==
    /\ pc \in {"returned", "failed"}
    /\ pc' = "idle"
    /\ op' = "none"
    /\ args' = NoArgs
    /\ locals' = NoLocals
    /\ result' = "none"
    /\ error' = "none"
    /\ drawn' = <<>>
    /\ out' = NoOut
    /\ UNCHANGED <<ncalls, gcf, zeroIsLast>>

\* the keyword combinations plotlc is called with: the flags are read only
\* when a model is given
PlotlcOptions ==
    {[model |-> NoModel, show_pulls |-> TRUE, include_model_error |-> FALSE]}
    \cup [model : {TheModel}, show_pulls : BOOLEAN, include_model_error : BOOLEAN]

CallPlotlc ==
    /\ Startable
    /\ \E data \in PlotBatches, fname \in {"None", "lc.png"}, o \in PlotlcOptions :
           PlotlcCall(data, fname, o.model, o.show_pulls, o.include_model_error)

CallPlotpdfs ==
    /\ Startable
    /\ \E n \in 1..MaxPar, ncol \in 1..MaxCol :
           \E pars \in [1..n -> PdfPars] : PlotpdfsCall(pars, "pdfs.png", ncol)

Next ==
    \/ CallPlotlc
    \/ PlotlcBand
    \/ PlotlcFinish
    \/ CallPlotpdfs
    \/ PlotpdfsPanel
    \/ PlotpdfsFinish
    \/ Resume

Spec == Init /\ [][Next]_vars

(***************************************************************************)
(* The claims.                                                             *)
(***************************************************************************)
Plotting == op \in {"plotlc", "plotpdfs"}

\* the rows of a band, and the j-th of them in row order
RowsOf(data, b) == {i \in 1..Len(data.band) : data.band[i] = b}
NthRow(data, b, j) ==
    CHOOSE i \in RowsOf(data, b) : Cardinality({h \in RowsOf(data, b) : h < i}) = j - 1

\* the series s holds exactly the rows of band b, in row order
HoldsRowsOf(s, data, b) ==
    /\ Len(s.x) = Cardinality(RowsOf(data, b))
    /\ Len(s.y) = Len(s.x)
    /\ Len(s.yerr) = Len(s.x)
    /\ \A j \in 1..Len(s.x) :
          LET i == NthRow(data, b, j)
          IN  /\ s.y[j] = locals.dataflux[i]
              /\ s.yerr[j] = locals.datafluxerr[i]

\* C1: in plotlc with a model, the panel of a band the model does not overlap
\* holds no model curve, no shaded band and no pulls, and does hold the
\* band's data error-bar series.
C1_NonOverlapPanelShowsData ==
    (op = "plotlc" /\ ~args.model.none) =>
        \A k \in DOMAIN drawn :
            ~bandoverlap(args.model, drawn[k].band) =>
                /\ drawn[k].curve = <<>>
                /\ drawn[k].shade = <<>>
                /\ drawn[k].pulls = <<>>
                /\ Len(drawn[k].series) = 1
                /\ HoldsRowsOf(drawn[k].series[1], args.data, drawn[k].band)

\* C2: in plotlc without a model the k-th panel drawn is cell k, it holds one
\* error-bar series with exactly the rows of its band, no band is drawn
\* twice, the bands are drawn in ascending effective wavelength (every band
\* drawn is no redder than any band still to come), and a call on 1 to 4
\* distinct known bands ends with one panel per band.
C2_OneSeriesPerBandByWavelength ==
    (op = "plotlc" /\ args.model.none) =>
        LET data == args.data
            bands == unique(data.band)
        IN  /\ \A k \in DOMAIN drawn :
                  /\ drawn[k].pos = k
                  /\ drawn[k].band \in bands
                  /\ Len(drawn[k].series) = 1
                  /\ HoldsRowsOf(drawn[k].series[1], data, drawn[k].band)
                  /\ \A j \in 1..Len(drawn[k].series[1].x) :
                        drawn[k].series[1].x[j] = data.time[NthRow(data, drawn[k].band, j)]
                  /\ \A b \in bands \ {drawn[j].band : j \in 1..k} :
                        disp_eff(drawn[k].band) <= disp_eff(b)
            /\ \A k1, k2 \in DOMAIN drawn :
                  k1 < k2 => /\ drawn[k1].band # drawn[k2].band
                             /\ disp_eff(drawn[k1].band) <= disp_eff(drawn[k2].band)
            /\ (pc = "returned" /\ Cardinality(bands) \in 1..4) =>
                  Len(drawn) = Cardinality(bands)
            /\ (pc = "failed" /\ Cardinality(bands) \in 1..4) => error = "LookupError"

\* a finished call without a model on four bands, two of equal wavelength,
\* one of them observed twice, drawn in another order than observed
C2_Witness ==
    /\ op = "plotlc" /\ args.model.none /\ pc = "returned"
    /\ Len(drawn) = 4
    /\ {"sdssr", "desr"} \subseteq unique(args.data.band)
    /\ drawn[1].band # args.data.band[1]
    /\ \E k \in DOMAIN drawn : Len(drawn[k].series[1].x) = 2

\* C3: plotpdfs on npar >= 1 parameters with positive uncertainties completes
\* with npar histogram panels, parameter i in its own cell of the
\* nrow x ncol grid, nrow = ceil(npar / ncol), over [avg - 5 err, avg + 5 err].
C3_OnePanelPerParameter ==
    (/\ op = "plotpdfs" /\ pc \in {"returned", "failed"}
     /\ \A i \in DOMAIN args.errors : args.errors[i].m > 0) =>
        /\ pc = "returned"
        /\ Len(drawn) = locals.npar
        /\ locals.nrow * args.ncol >= locals.npar
        /\ (locals.nrow - 1) * args.ncol < locals.npar
        /\ \A k \in DOMAIN drawn :
              /\ drawn[k].par = k - 1
              /\ drawn[k].pos \in 1..(locals.nrow * args.ncol)
              /\ drawn[k].range = <<args.averages[k].m - 5 * args.errors[k].m,
                                    args.averages[k].m + 5 * args.errors[k].m>>
        /\ \A k1, k2 \in DOMAIN drawn : k1 # k2 => drawn[k1].pos # drawn[k2].pos

\* C4: in plotlc no cell of the 2x2 grid is drawn into by two bands; a call
\* on exactly 4 distinct (known) bands ends with cells 1, 2, 3, 4 used once
\* each; a call on more than 4 distinct bands ends in an error, with nothing
\* written, after the four cells were used once each.
C4_GridFilledOrDefinedError ==
    (op = "plotlc") =>
        LET n == Cardinality(unique(args.data.band))
        IN  /\ \A k \in DOMAIN drawn : drawn[k].pos \in 1..4
            /\ \A k1, k2 \in DOMAIN drawn : k1 # k2 => drawn[k1].pos # drawn[k2].pos
            /\ (n = 4 /\ pc = "returned") =>
                  /\ Len(drawn) = 4
                  /\ {drawn[k].pos : k \in DOMAIN drawn} = 1..4
            /\ (n = 4 /\ pc = "failed") => error = "LookupError"
            /\ (n > 4 /\ pc \in {"finish", "returned", "failed"}) =>
                  /\ pc = "failed"
                  /\ error \in {"LookupError", "ValueError"}
                  /\ out = NoOut
            /\ (n > 4 /\ error = "ValueError") => Len(drawn) = 4

\* five distinct bands: the fifth subplot call raised after four panels
C4_Witness ==
    /\ op = "plotlc" /\ pc = "failed" /\ error = "ValueError"
    /\ Cardinality(unique(args.data.band)) = 5
    /\ {drawn[k].pos : k \in DOMAIN drawn} = 1..4

\* the characters of a formatted pair before and after " +/- "
IndexOf(cs, c) == IF \E i \in DOMAIN cs : cs[i] = c
                  THEN CHOOSE i \in DOMAIN cs : cs[i] = c /\ \A j \in 1..(i - 1) : cs[j] # c
                  ELSE 0
ValuePart(cs) == SubSeq(cs, 1, IndexOf(cs, " ") - 1)
ErrorPart(cs) == SubSeq(cs, IndexOf(cs, " ") + 5, Len(cs))
\* the number of decimal places a formatted number shows
Places(cs) == IF IndexOf(cs, ".") = 0 THEN 0 ELSE Len(cs) - IndexOf(cs, ".")
\* the decimal place of the leading significant digit of e > 0 (0 when e >= 1)
LeadPlace(e) == CHOOSE k \in 0..8 :
                    /\ e.m * IntPow(10, k) >= 10000
                    /\ \A j \in 0..(k - 1) : e.m * IntPow(10, j) < 10000

FmtReturned == op = "val_and_err_to_str" /\ pc = "returned"

\* C5 as stated: both numbers are printed with as many decimal places as the
\* place of the leading significant digit of e (0 when e >= 1), and the two
\* examples come out as "1.23 +/- 0.01" and "123 +/- 5".
C5_OneSignificantDigit ==
    FmtReturned =>
        /\ Places(ValuePart(result)) = LeadPlace(args.e)
        /\ Places(ErrorPart(result)) = LeadPlace(args.e)
        /\ (args.v = Dec(12345, -1) /\ args.e = Dec(120, 1)) => Text(result) = "1.23 +/- 0.01"
        /\ (args.v = Dec(1234000, 1) /\ args.e = Dec(50000, 0)) => Text(result) = "123 +/- 5"

\* C5 (amended): val_and_err_to_str(v, e) for e > 0 prints both numbers with
\* one decimal place more than the place of the leading significant digit of
\* e (none when e >= 10): the examples come out as "1.234 +/- 0.012" and
\* "123.4 +/- 5.0".
C5_OnePlaceBeyondLeadingDigit ==
    FmtReturned =>
        LET p == IF args.e.m >= 100000 THEN 0 ELSE LeadPlace(args.e) + 1
        IN  /\ Places(ValuePart(result)) = p
            /\ Places(ErrorPart(result)) = p
            /\ (args.v = Dec(12345, -1) /\ args.e = Dec(120, 1)) =>
                  Text(result) = "1.234 +/- 0.012"
            /\ (args.v = Dec(1234000, 1) /\ args.e = Dec(50000, 0)) =>
                  Text(result) = "123.4 +/- 5.0"

\* val_and_err_to_str(1.2345, 0.012) has returned
C5_Witness ==
    /\ FmtReturned
    /\ args.v = Dec(12345, -1) /\ args.e = Dec(120, 1)
    /\ Places(ErrorPart(result)) = 3

NormReturned == op = "normalized_flux" /\ pc = "returned"

\* out = x * (native reference flux / target reference flux) * 100^((zp - zp_i) / 5)
\* for row i, cross-multiplied
ScaledRow(outv, x, i) ==
    LET data == args.data
        dz == args.zp - data.zp[i]
        num == IF dz >= 0 THEN IntPow(100, dz \div 5) ELSE 1
        den == IF dz >= 0 THEN 1 ELSE IntPow(100, (-dz) \div 5)
    IN  outv[1] * zpbandflux(args.magsys, data.band[i]) * den
          = outv[2] * x * zpbandflux(data.zpsys[i], data.band[i]) * num

\* C6: normalized_flux returns two arrays as long as the batch, and row i of
\* both is the input flux and flux error of row i times the factor of row i.
C6_SameLengthAndRowFactor ==
    NormReturned =>
        LET data == args.data
            n == Len(data.flux)
        IN  /\ Len(result[1]) = n
            /\ Len(result[2]) = n
            /\ \A i \in 1..n : /\ ScaledRow(result[1][i], data.flux[i], i)
                               /\ ScaledRow(result[2][i], data.fluxerr[i], i)

\* two rows with different factors, neither of them 1
C6_Witness ==
    /\ NormReturned
    /\ Len(args.data.flux) = 2
    /\ args.data.zpsys[1] # args.data.zpsys[2]
    /\ \A i \in 1..2 : result[1][i] # RInt(args.data.flux[i])
    /\ args.data.zp[2] # args.zp

\* C7: a row whose system and zeropoint are the target's comes back
\* unchanged, whatever the other rows are.
C7_NativeRowsUnchanged ==
    NormReturned =>
        \A i \in 1..Len(args.data.flux) :
            (args.data.zpsys[i] = args.magsys /\ args.data.zp[i] = args.zp) =>
                /\ result[1][i] = RInt(args.data.flux[i])
                /\ result[2][i] = RInt(args.data.fluxerr[i])

\* a native row after a row that is rescaled
C7_Witness ==
    /\ NormReturned
    /\ Len(args.data.flux) = 2
    /\ args.data.zpsys[2] = args.magsys /\ args.data.zp[2] = args.zp
    /\ result[1][1] # RInt(args.data.flux[1])
    /\ result[1][2] = RInt(args.data.flux[2])

\* C8: a plotting call that raises ends there: nothing is written or shown,
\* no further step of the call can be taken, and the panels drawn are those
\* of the bands or parameters before the failing one.
C8_FailureAbortsTheCall ==
    /\ error # "none" => (pc = "failed" /\ out = NoOut)
    /\ pc = "failed" =>
          /\ error # "none"
          /\ ~ENABLED PlotlcBand /\ ~ENABLED PlotlcFinish
          /\ ~ENABLED PlotpdfsPanel /\ ~ENABLED PlotpdfsFinish
    /\ (pc = "failed" /\ op = "plotlc") =>
          \/ error = "LookupError" /\ drawn = <<>>
          \/ /\ error = "ValueError"
             /\ Len(drawn) = locals.k - 1
             /\ locals.k <= Len(locals.order)
    /\ (pc = "failed" /\ op = "plotpdfs") =>
          /\ Len(drawn) = locals.i
          /\ locals.i < locals.npar

\* plotpdfs raised on a later parameter, after drawing an earlier one
C8_Witness ==
    /\ pc = "failed" /\ op = "plotpdfs"
    /\ Len(drawn) >= 1
    /\ args.errors[locals.i + 1].m <= 0
    /\ locals.i + 1 < locals.npar

\* C9 as stated: when a plotting call has returned, the current figure holds
\* no panels.
C9_FigureResetOnReturn ==
    (Plotting /\ pc = "returned") => gcf = {}

\* C9 (amended): every plotlc and plotpdfs call starts on a new, empty
\* current figure, so the current figure and the output of a call hold only
\* panels drawn by that call; a call that writes a file clears the current
\* figure before it returns.
C9_FreshFigurePerCall ==
    /\ Plotting => \A p \in gcf : p.call = ncalls
    /\ out.kind # "none" =>
          out.panels = {[call |-> ncalls, pos |-> drawn[k].pos] : k \in DOMAIN drawn}
    /\ (Plotting /\ pc = "returned" /\ out.kind = "file") => gcf = {}

\* a second call has written its panels to a file
C9_Witness ==
    /\ Plotting /\ pc = "returned" /\ ncalls = 2
    /\ out.kind = "file" /\ Cardinality(out.panels) >= 2
    /\ gcf = {}

\* C10: on a band the model overlaps the y-range set is
\* [max(auto_min, -0.2 P), min(auto_max, 2 P)], P the peak of the model flux
\* on the model's own time grid, with or without pulls.
C10_YRangeFromGridPeak ==
    (op = "plotlc" /\ ~args.model.none) =>
        \A k \in DOMAIN drawn :
            bandoverlap(args.model, drawn[k].band) =>
                LET P == RMaxSeq(bandflux(args.model, drawn[k].band))
                    auto == drawn[k].auto[1]
                IN  drawn[k].ylim = <<<<RMax2(auto[1], RMul(Rat(-1, 5), P)),
                                        RMin2(auto[2], RMul(RInt(2), P))>>>>

====
